---- MODULE Spec2Model ----
(***************************************************************************)
(* mini-ls: the report formatter of src/src/output_formatting.rs.          *)
(*                                                                         *)
(* A Rust string is modelled as the sequence of its UTF-8 bytes.  An ASCII *)
(* byte is written as the one-character string of its character, any other *)
(* byte as its two hexadecimal digits ("C3", "A9", ...).  len() is the     *)
(* length of the sequence, graphemes(true) the segmentation below.         *)
(***************************************************************************)
EXTENDS Integers, Sequences, FiniteSets, TLC

(***************************************************************************)
(* Bounds of the model.                                                    *)
(***************************************************************************)
MaxFiles == 3
MaxDirs == 2
MaxWidth == 86
MaxArgs == 3
MaxRead == 3

(***************************************************************************)
(* Program constants.                                                      *)
(***************************************************************************)
RESERVED_LENGTH == 66
MIN_CONSOLE_WIDTH == 80
HEADER_RESERVED == 60
NAME_HEADING_MARGIN == 4
DATE_HEADING_WIDTH == 24
PERMISSIONS_HEADING_WIDTH == 13

FLOPPY == <<"F0", "9F", "92", "BE">>
FOLDER == <<"F0", "9F", "93", "81">>

(***************************************************************************)
(* UTF-8 and grapheme clusters, over the bytes the model uses.             *)
(***************************************************************************)
ContinuationBytes == {"A9", "9F", "92", "BE", "93", "81"}
LeadBytes == {"C3", "CC", "F0"}
InvalidBytes == {"FF"}

SeqLenOfLead(b) == IF b = "F0" THEN 4 ELSE 2

IsAscii(b) == b \notin ContinuationBytes /\ b \notin LeadBytes /\ b \notin InvalidBytes

RECURSIVE ValidUtf8From(_, _)
ValidUtf8From(s, i) ==
  IF i > Len(s) THEN TRUE
  ELSE IF IsAscii(s[i]) THEN ValidUtf8From(s, i + 1)
  ELSE IF s[i] \in LeadBytes
    THEN /\ i + SeqLenOfLead(s[i]) - 1 <= Len(s)
         /\ \A j \in (i + 1)..(i + SeqLenOfLead(s[i]) - 1) : s[j] \in ContinuationBytes
         /\ ValidUtf8From(s, i + SeqLenOfLead(s[i]))
  ELSE FALSE

None == [some |-> FALSE]
Some(v) == [some |-> TRUE, val |-> v]

\* OsStr::to_str / Path::to_str: the text when it is valid Unicode.
to_str(os) == IF ValidUtf8From(os, 1) THEN Some(os) ELSE None

\* A grapheme cluster starts at every code point that is not a combining
\* mark (U+0301, bytes CC 81); the first code point always starts one.
Positions(s) == [i \in 1..Len(s) |-> i]

GraphemeStarts(s) ==
  LET StartsCluster(i) == s[i] \notin ContinuationBytes /\ (s[i] # "CC" \/ i = 1)
  IN SelectSeq(Positions(s), StartsCluster)

graphemes(s) ==
  LET starts == GraphemeStarts(s)
      n == Len(starts)
      EndOf(k) == IF k = n THEN Len(s) ELSE starts[k + 1] - 1
  IN [k \in 1..n |-> SubSeq(s, starts[k], EndOf(k))]

take(items, n) == SubSeq(items, 1, IF n < Len(items) THEN n ELSE Len(items))

RECURSIVE join(_, _)
join(parts, sep) ==
  IF Len(parts) = 0 THEN <<>>
  ELSE IF Len(parts) = 1 THEN parts[1]
  ELSE parts[1] \o sep \o join(Tail(parts), sep)

repeat(unit, n) == [i \in 1..n |-> unit]

\* str::lines: the pieces between line feeds; a final empty piece is no line.
LineFeeds(s) ==
  LET IsLineFeed(i) == s[i] = "\n"
  IN SelectSeq(Positions(s), IsLineFeed)

lines(s) ==
  LET feeds == LineFeeds(s)
      pieces == Len(feeds) + 1
      StartOf(k) == IF k = 1 THEN 1 ELSE feeds[k - 1] + 1
      EndOf(k) == IF k = pieces THEN Len(s) ELSE feeds[k] - 1
      count == IF StartOf(pieces) > EndOf(pieces) THEN pieces - 1 ELSE pieces
  IN [k \in 1..count |-> SubSeq(s, StartOf(k), EndOf(k))]

(***************************************************************************)
(* chrono: DateTime::<Utc>::from_timestamp(secs, nanos) formatted with     *)
(* DATE_FORMAT "%Y-%m-%d %H:%M:%S%.3f" (proleptic Gregorian calendar).     *)
(***************************************************************************)
DigitChars == <<"0", "1", "2", "3", "4", "5", "6", "7", "8", "9">>

RECURSIVE ZeroPadded(_, _)
ZeroPadded(n, digits) ==
  IF digits = 0 THEN <<>>
  ELSE Append(ZeroPadded(n \div 10, digits - 1), DigitChars[(n % 10) + 1])

CivilFromDays(days) ==
  LET z == days + 719468
      era == z \div 146097
      doe == z - era * 146097
      yoe == (doe - doe \div 1460 + doe \div 36524 - doe \div 146096) \div 365
      doy == doe - (365 * yoe + yoe \div 4 - yoe \div 100)
      mp == (5 * doy + 2) \div 153
      d == doy - (153 * mp + 2) \div 5 + 1
      m == IF mp < 10 THEN mp + 3 ELSE mp - 9
      y == yoe + era * 400 + (IF m <= 2 THEN 1 ELSE 0)
  IN [year |-> y, month |-> m, day |-> d]

format_date(since_epoch) ==
  LET date == CivilFromDays(since_epoch.secs \div 86400)
      secs_of_day == since_epoch.secs % 86400
  IN ZeroPadded(date.year, 4) \o <<"-">> \o ZeroPadded(date.month, 2) \o <<"-">>
       \o ZeroPadded(date.day, 2) \o <<" ">>
       \o ZeroPadded(secs_of_day \div 3600, 2) \o <<":">>
       \o ZeroPadded((secs_of_day % 3600) \div 60, 2) \o <<":">>
       \o ZeroPadded(secs_of_day % 60, 2) \o <<".">>
       \o ZeroPadded(since_epoch.nanos \div 1000000, 3)

(***************************************************************************)
(* std::fs::DirEntry: the directory it was read from, its file name, and   *)
(* what metadata() answers.  The entries a request is drawn from.          *)
(***************************************************************************)
TargetDir == <<"/", "t">>

DirEntryOf(name, meta_ok, readonly, created, modified) ==
  [parent |-> TargetDir, file_name |-> name, meta_ok |-> meta_ok,
   readonly |-> readonly, created |-> created, modified |-> modified]

Epoch == [secs |-> 0, nanos |-> 0]
LeapDayNoon == [secs |-> 951827696, nanos |-> 789999999]
EndOf2023 == [secs |-> 1704067199, nanos |-> 999999999]

\* "/t/a.txt": 8 bytes, 8 grapheme clusters.
ShortFile == DirEntryOf(<<"a", ".", "t", "x", "t">>, TRUE, FALSE, Epoch, LeapDayNoon)
\* "/t/long_file_nam ": 17 bytes, 17 grapheme clusters, ends in a space.
LongFile ==
  DirEntryOf(<<"l", "o", "n", "g", "_", "f", "i", "l", "e", "_", "n", "a", "m", " ">>,
             TRUE, TRUE, LeapDayNoon, EndOf2023)
\* "/t/" + "e" U+0301 + U+00E9 + "wide_name.x": 19 bytes, 17 code points,
\* 16 grapheme clusters.
WideFile ==
  DirEntryOf(<<"e", "CC", "81", "C3", "A9">> \o <<"w", "i", "d", "e", "_", "n", "a", "m", "e", ".", "x">>,
             TRUE, FALSE, Epoch, Epoch)
\* A file name that is not valid Unicode.
BadNameFile == DirEntryOf(<<"x", "FF">>, TRUE, FALSE, Epoch, Epoch)
\* A file whose metadata cannot be read.
GoneFile == DirEntryOf(<<"g", "o", "n", "e">>, FALSE, FALSE, Epoch, Epoch)
\* "/t/subdir_x": 11 bytes.
SubDir == DirEntryOf(<<"s", "u", "b", "d", "i", "r", "_", "x">>, TRUE, FALSE, Epoch, Epoch)
\* A directory name that is not valid Unicode.
BadNameDir == DirEntryOf(<<"FF", "d">>, TRUE, FALSE, Epoch, Epoch)

FileEntries == {ShortFile, LongFile, WideFile, BadNameFile, GoneFile}
DirEntries == {SubDir, BadNameDir}

\* DirEntry::path: the directory joined with the file name.
path(entry) == entry.parent \o <<"/">> \o entry.file_name

\* DirEntry::file_name: the final component only.
file_name(entry) == entry.file_name

\* DirEntry::metadata.
metadata(entry) ==
  IF entry.meta_ok
    THEN [kind |-> "Ok", val |-> [readonly |-> entry.readonly, created |-> entry.created,
                                  modified |-> entry.modified]]
    ELSE [kind |-> "Err", error_kind |-> "NotFound"]

(***************************************************************************)
(* Results.  A panic is an outcome of its own: the call returns nothing.   *)
(* A usize subtraction below zero panics in a debug build; in a release    *)
(* build it wraps to a count near 2^64, which str::repeat refuses with a   *)
(* "capacity overflow" panic.  Both builds therefore end in a panic.       *)
(***************************************************************************)
Ok(v) == [kind |-> "Ok", val |-> v]
Err(e) == [kind |-> "Err", error |-> e]
Panic(m) == [kind |-> "Panic", message |-> m]

Max(S) == CHOOSE x \in S : \A y \in S : y <= x

\* As analyse_longest, measuring the files only.
analyse_longest_files_only(cmd) ==
  LET full_list == cmd.files
      stringy(entry) == IF to_str(path(entry)).some THEN to_str(path(entry)).val ELSE <<>>
  IN IF Len(full_list) = 0 THEN None
     ELSE Some(Max({Len(stringy(full_list[i])) : i \in 1..Len(full_list)}))

\* output_formatting.rs analyse_longest: the greatest byte length of a path,
\* a path that is not valid Unicode counting as "".
analyse_longest(cmd) ==
  LET full_list == cmd.files \o cmd.directories
      stringy(entry) == IF to_str(path(entry)).some THEN to_str(path(entry)).val ELSE <<>>
  IN IF Len(full_list) = 0 THEN None
     ELSE Some(Max({Len(stringy(full_list[i])) : i \in 1..Len(full_list)}))

create_heading_of_width(head_width, name) ==
  IF head_width - Len(graphemes(name)) < 0
    THEN Panic("attempt to subtract with overflow")
    ELSE Ok(name \o repeat(" ", head_width - Len(graphemes(name))))

\* As header_name_width, with the margin of 3 of the earlier formatter.
header_name_width_margin_3(width, longest) ==
  IF longest + 3 <= width - HEADER_RESERVED
    THEN longest + 3
    ELSE width - HEADER_RESERVED

header_name_width(width, longest) ==
  IF longest + NAME_HEADING_MARGIN <= width - HEADER_RESERVED
    THEN longest + NAME_HEADING_MARGIN
    ELSE width - HEADER_RESERVED

\* As create_extended_attr_header, with a separator as long as the header line.
create_extended_attr_header_separator_of_header_length(width, longest) ==
  LET date_created_heading == create_heading_of_width(DATE_HEADING_WIDTH, <<"D", "a", "t", "e", " ", "C", "r", "e", "a", "t", "e", "d">>)
      date_modified_heading == create_heading_of_width(DATE_HEADING_WIDTH, <<"D", "a", "t", "e", " ", "M", "o", "d", "i", "f", "i", "e", "d">>)
      permissions_heading == create_heading_of_width(PERMISSIONS_HEADING_WIDTH, <<"P", "e", "r", "m", "i", "s", "s", "i", "o", "n", "s">>)
      remaining_width == header_name_width(width, longest)
      name_heading == create_heading_of_width(remaining_width, <<"N", "a", "m", "e">>)
  IN IF name_heading.kind = "Panic" THEN name_heading
     ELSE Ok(<<name_heading.val \o date_created_heading.val \o permissions_heading.val
                 \o date_modified_heading.val,
               repeat("=", remaining_width + 2 * DATE_HEADING_WIDTH + PERMISSIONS_HEADING_WIDTH)>>)

\* As create_extended_attr_header, with the permissions heading last.
create_extended_attr_header_permissions_last(width, longest) ==
  LET date_created_heading == create_heading_of_width(DATE_HEADING_WIDTH, <<"D", "a", "t", "e", " ", "C", "r", "e", "a", "t", "e", "d">>)
      date_modified_heading == create_heading_of_width(DATE_HEADING_WIDTH, <<"D", "a", "t", "e", " ", "M", "o", "d", "i", "f", "i", "e", "d">>)
      permissions_heading == create_heading_of_width(PERMISSIONS_HEADING_WIDTH, <<"P", "e", "r", "m", "i", "s", "s", "i", "o", "n", "s">>)
      remaining_width == header_name_width(width, longest)
      name_heading == create_heading_of_width(remaining_width, <<"N", "a", "m", "e">>)
  IN IF name_heading.kind = "Panic" THEN name_heading
     ELSE Ok(<<name_heading.val \o date_created_heading.val \o date_modified_heading.val
                 \o permissions_heading.val,
               repeat("=", width)>>)

create_extended_attr_header(width, longest) ==
  LET date_created_heading == create_heading_of_width(DATE_HEADING_WIDTH, <<"D", "a", "t", "e", " ", "C", "r", "e", "a", "t", "e", "d">>)
      date_modified_heading == create_heading_of_width(DATE_HEADING_WIDTH, <<"D", "a", "t", "e", " ", "M", "o", "d", "i", "f", "i", "e", "d">>)
      permissions_heading == create_heading_of_width(PERMISSIONS_HEADING_WIDTH, <<"P", "e", "r", "m", "i", "s", "s", "i", "o", "n", "s">>)
      remaining_width == header_name_width(width, longest)
      name_heading == create_heading_of_width(remaining_width, <<"N", "a", "m", "e">>)
  IN IF name_heading.kind = "Panic" THEN name_heading
     ELSE Ok(<<name_heading.val \o date_created_heading.val \o permissions_heading.val
                 \o date_modified_heading.val,
               repeat("=", width)>>)

\* As set_file_name_length, cutting after allowed_width bytes.
set_file_name_length_by_bytes(allowed_width, name) ==
  IF Len(graphemes(name)) >= allowed_width
    THEN Ok(SubSeq(name, 1, allowed_width))
    ELSE IF allowed_width - Len(name) < 0
      THEN Panic("attempt to subtract with overflow")
      ELSE Ok(name \o repeat(" ", allowed_width - Len(name)))

set_file_name_length(allowed_width, name) ==
  IF Len(graphemes(name)) >= allowed_width
    THEN Ok(join(take(graphemes(name), allowed_width), <<>>))
    ELSE IF allowed_width - Len(name) < 0
      THEN Panic("attempt to subtract with overflow")
      ELSE Ok(name \o repeat(" ", allowed_width - Len(name)))

get_formatted_date(meta_data, options) ==
  IF options = "Created" THEN format_date(meta_data.created)
  ELSE format_date(meta_data.modified)

\* As format_file_entry_with_ext_attr, with the permissions literals of the
\* earlier formatter: one trailing space each.
format_file_entry_with_ext_attr_one_trailing_space(dir, allowed_width) ==
  LET file_name_as_path == path(dir)
      text == to_str(file_name_as_path)
      cell == set_file_name_length(allowed_width, text.val)
      meta == metadata(dir)
      permissions == IF meta.val.readonly THEN <<"r", "e", "a", "d", " ", "o", "n", "l", "y", " ">> ELSE <<"w", "r", "i", "t", "a", "b", "l", "e", " ">>
  IN IF ~text.some THEN Err("FileNameInvalidUnicode")
     ELSE IF cell.kind = "Panic" THEN cell
     ELSE IF meta.kind = "Err" THEN Err("MissingMetaDataError")
     ELSE Ok(join(<<FLOPPY, cell.val, get_formatted_date(meta.val, "Created"), permissions,
                    get_formatted_date(meta.val, "Modified")>>, <<" ">>))

\* As format_file_entry_with_ext_attr, with the name cell and the creation
\* date joined without a separator.
format_file_entry_with_ext_attr_name_touches_date(dir, allowed_width) ==
  LET file_name_as_path == path(dir)
      text == to_str(file_name_as_path)
      cell == set_file_name_length(allowed_width, text.val)
      meta == metadata(dir)
      permissions == IF meta.val.readonly THEN <<"r", "e", "a", "d", " ", "o", "n", "l", "y", " ", " ", " ">> ELSE <<"w", "r", "i", "t", "a", "b", "l", "e", " ", " ", " ", " ">>
  IN IF ~text.some THEN Err("FileNameInvalidUnicode")
     ELSE IF cell.kind = "Panic" THEN cell
     ELSE IF meta.kind = "Err" THEN Err("MissingMetaDataError")
     ELSE Ok(join(<<FLOPPY, cell.val \o get_formatted_date(meta.val, "Created"), permissions,
                    get_formatted_date(meta.val, "Modified")>>, <<" ">>))

format_file_entry_with_ext_attr(dir, allowed_width) ==
  LET file_name_as_path == path(dir)
      text == to_str(file_name_as_path)
      cell == set_file_name_length(allowed_width, text.val)
      meta == metadata(dir)
      permissions == IF meta.val.readonly THEN <<"r", "e", "a", "d", " ", "o", "n", "l", "y", " ", " ", " ">> ELSE <<"w", "r", "i", "t", "a", "b", "l", "e", " ", " ", " ", " ">>
  IN IF ~text.some THEN Err("FileNameInvalidUnicode")
     ELSE IF cell.kind = "Panic" THEN cell
     ELSE IF meta.kind = "Err" THEN Err("MissingMetaDataError")
     ELSE Ok(join(<<FLOPPY, cell.val, get_formatted_date(meta.val, "Created"), permissions,
                    get_formatted_date(meta.val, "Modified")>>, <<" ">>))

\* map(...).collect::<Result<Vec<_>, _>>(): the rows up to the first entry
\* that fails, whose failure is then the result.
RECURSIVE format_each_ext_attr_entry(_, _)
format_each_ext_attr_entry(files, max_file_name_width) ==
  IF Len(files) = 0 THEN Ok(<<>>)
  ELSE LET first == format_file_entry_with_ext_attr(files[1], max_file_name_width)
           rest == format_each_ext_attr_entry(Tail(files), max_file_name_width)
       IN IF first.kind # "Ok" THEN first
          ELSE IF rest.kind # "Ok" THEN rest
          ELSE Ok(<<first.val>> \o rest.val)

\* As convert_dir_entry_to_str, converting the full path.
convert_dir_entry_to_str_full_path(dir_entry) ==
  IF to_str(path(dir_entry)).some THEN Ok(to_str(path(dir_entry)).val)
  ELSE Err("FileNameInvalidUnicode")

convert_dir_entry_to_str(dir_entry) ==
  IF to_str(file_name(dir_entry)).some THEN Ok(to_str(file_name(dir_entry)).val)
  ELSE Err("FileNameInvalidUnicode")

\* filter_map(|entry| convert_dir_entry_to_str(entry).ok()): an entry whose
\* conversion fails yields no row.
RECURSIVE format_each_entry(_, _)
format_each_entry(dir_entries, icon) ==
  IF Len(dir_entries) = 0 THEN Ok(<<>>)
  ELSE LET converted == convert_dir_entry_to_str(dir_entries[1])
           rest == format_each_entry(Tail(dir_entries), icon)
       IN IF converted.kind = "Ok"
            THEN Ok(<<icon \o <<" ">> \o converted.val>> \o rest.val)
            ELSE rest

\* As file_name_width, giving every row all the space beside the reserved
\* columns.
file_name_width_all_available(width, longest) ==
  LET available_filename_space == width - RESERVED_LENGTH
  IN available_filename_space

file_name_width(width, longest) ==
  LET available_filename_space == width - RESERVED_LENGTH
  IN IF available_filename_space > longest THEN longest ELSE available_filename_space

\* As orchestrate_formatting, with the width floor excluding 80 itself.
orchestrate_formatting_floor_below_80(cmd, longest) ==
  IF cmd.extended_attr /\ cmd.width > MIN_CONSOLE_WIDTH
    THEN format_each_ext_attr_entry(cmd.files, file_name_width(cmd.width, longest))
  ELSE IF cmd.extended_attr /\ cmd.width < MIN_CONSOLE_WIDTH
    THEN Panic("requires minimum console width of 80")
  ELSE format_each_entry(cmd.files, FLOPPY)

orchestrate_formatting(cmd, longest) ==
  IF cmd.extended_attr /\ cmd.width > MIN_CONSOLE_WIDTH
    THEN format_each_ext_attr_entry(cmd.files, file_name_width(cmd.width, longest))
  ELSE IF cmd.extended_attr /\ cmd.width <= MIN_CONSOLE_WIDTH
    THEN Panic("requires minimum console width of 80")
  ELSE format_each_entry(cmd.files, FLOPPY)

\* As format_directories, giving directories the extended file rows when
\* extended attributes are requested.
format_directories_by_mode(cmd) ==
  IF cmd.extended_attr
    THEN format_each_ext_attr_entry(cmd.directories, RESERVED_LENGTH)
    ELSE format_each_entry(cmd.directories, FOLDER)

format_directories(cmd) == format_each_entry(cmd.directories, FOLDER)

\* As assemble_report, appending the directory rows before the file rows.
assemble_report_dirs_first(header, file_rows, dir_rows) ==
  join(header \o dir_rows \o file_rows, <<"\n">>)

assemble_report(header, file_rows, dir_rows) == join(header \o file_rows \o dir_rows, <<"\n">>)

(***************************************************************************)
(* generate_textual_display as a state machine: one step per statement of  *)
(* the function, from a FormattingCommand chosen at construction.          *)
(***************************************************************************)
VARIABLES command, pc, longest, remaining_width, file_name_target_length, header_row,
          string_list_of_files, string_list_of_dirs, result

\* The result of an earlier call for the same command, once it is called again.
VARIABLES previous

\* Config::build: its argument list, the build profile of the binary, its
\* position, and the values of its local bindings; the home directory of the
\* user as dirs::home_dir reports it.
VARIABLES args, profile, home_dir, build_pc, flags, file_output, config

\* split_into_files_and_dirs: what fs::read_dir yields, and the pair
\* (directories, files) it is split into.
VARIABLES file_collection, partitioned

formatting_vars == <<command, pc, longest, remaining_width, file_name_target_length, header_row,
                     string_list_of_files, string_list_of_dirs, result>>
build_vars == <<args, profile, home_dir, build_pc, flags, file_output, config>>
listing_vars == <<file_collection, partitioned>>
vars == <<formatting_vars, previous, build_vars, listing_vars>>

\* The listings of a directory: no entry occurs twice.
Listings(S, max) ==
  UNION {{seq \in [1..n -> S] : \A i, j \in 1..n : i # j => seq[i] # seq[j]} : n \in 0..max}

Widths == (MIN_CONSOLE_WIDTH - 1)..MaxWidth

\* FormattingCommand::new
FormattingCommands ==
  [extended_attr : BOOLEAN, width : Widths, files : Listings(FileEntries, MaxFiles),
   directories : Listings(DirEntries, MaxDirs)]

Pending == [kind |-> "Pending"]

\* No directory is being read.
NotListing ==
  /\ file_collection = <<>>
  /\ partitioned = Pending

\* No Config::build is under way.
NotBuilding ==
  /\ args = <<>>
  /\ profile = "debug"
  /\ home_dir = None
  /\ build_pc = "idle"
  /\ flags = <<>>
  /\ file_output = Pending
  /\ config = Pending

Init ==
  /\ command \in FormattingCommands
  /\ pc = "analyse_longest"
  /\ longest = None
  /\ remaining_width = None
  /\ file_name_target_length = None
  /\ header_row = <<>>
  /\ string_list_of_files = <<>>
  /\ string_list_of_dirs = <<>>
  /\ result = Pending
  /\ previous = Pending
  /\ NotBuilding
  /\ NotListing

AnalyseLongest ==
  /\ pc = "analyse_longest"
  /\ longest' = analyse_longest(command)
  /\ IF longest'.some
       THEN pc' = "header" /\ result' = result
       ELSE pc' = "done" /\ result' = Err("UnableToCalculatePathLengths")
  /\ UNCHANGED <<command, remaining_width, file_name_target_length, header_row,
                 string_list_of_files, string_list_of_dirs>>
  /\ UNCHANGED <<previous, build_vars, listing_vars>>

BuildHeader ==
  /\ pc = "header"
  /\ IF command.extended_attr /\ command.width > MIN_CONSOLE_WIDTH
       THEN LET header == create_extended_attr_header(command.width, longest.val)
            IN /\ remaining_width' = Some(header_name_width(command.width, longest.val))
               /\ IF header.kind = "Ok"
                    THEN header_row' = header.val /\ pc' = "files" /\ result' = result
                    ELSE header_row' = header_row /\ pc' = "done" /\ result' = header
       ELSE /\ header_row' = <<<<"N", "a", "m", "e", ":">>, repeat("=", command.width)>>
            /\ remaining_width' = remaining_width
            /\ pc' = "files"
            /\ result' = result
  /\ UNCHANGED <<command, longest, file_name_target_length, string_list_of_files,
                 string_list_of_dirs>>
  /\ UNCHANGED <<previous, build_vars, listing_vars>>

RenderFiles ==
  /\ pc = "files"
  /\ LET rows == orchestrate_formatting(command, longest.val)
     IN /\ file_name_target_length' =
             IF command.extended_attr /\ command.width > MIN_CONSOLE_WIDTH
               THEN Some(file_name_width(command.width, longest.val))
               ELSE file_name_target_length
        /\ IF rows.kind = "Ok"
             THEN string_list_of_files' = rows.val /\ pc' = "directories" /\ result' = result
             ELSE string_list_of_files' = string_list_of_files /\ pc' = "done"
                  /\ result' = rows
  /\ UNCHANGED <<command, longest, remaining_width, header_row, string_list_of_dirs>>
  /\ UNCHANGED <<previous, build_vars, listing_vars>>

RenderDirectories ==
  /\ pc = "directories"
  /\ LET rows == format_directories(command)
     IN IF rows.kind = "Ok"
          THEN string_list_of_dirs' = rows.val /\ pc' = "join" /\ result' = result
          ELSE string_list_of_dirs' = string_list_of_dirs /\ pc' = "done" /\ result' = rows
  /\ UNCHANGED <<command, longest, remaining_width, file_name_target_length, header_row,
                 string_list_of_files>>
  /\ UNCHANGED <<previous, build_vars, listing_vars>>

JoinReport ==
  /\ pc = "join"
  /\ result' = Ok(assemble_report(header_row, string_list_of_files, string_list_of_dirs))
  /\ pc' = "done"
  /\ UNCHANGED <<command, longest, remaining_width, file_name_target_length, header_row,
                 string_list_of_files, string_list_of_dirs>>
  /\ UNCHANGED <<previous, build_vars, listing_vars>>

Next == AnalyseLongest \/ BuildHeader \/ RenderFiles \/ RenderDirectories \/ JoinReport

Spec == Init /\ [][Next]_vars

TypeOK ==
  /\ command \in FormattingCommands
  /\ pc \in {"analyse_longest", "header", "files", "directories", "join", "done"}
  /\ result.kind \in {"Pending", "Ok", "Err", "Panic"}
  /\ (pc = "done") = (result.kind # "Pending")

(***************************************************************************)
(* generate_textual_display called a second time for the same command.     *)
(* A FormattingCommand holds DirEntry values: a path each.  The metadata   *)
(* of an entry is what DirEntry::metadata reads from the file system       *)
(* during the call, so between two calls it can have changed.  The fields  *)
(* meta_ok, readonly, created and modified of an entry stand for what the  *)
(* file system answers at present.                                         *)
(***************************************************************************)
StartOf2024 == [secs |-> 1704067200, nanos |-> 0]

\* The file is written to: its modification time moves on.
touch(entry) == [entry EXCEPT !.modified = StartOf2024]
\* The file is deleted: asking for its metadata fails.
remove_file(entry) == [entry EXCEPT !.meta_ok = FALSE]

FileSystemChanges(entry) == {touch(entry), remove_file(entry)}

\* The entries are as the directory listed them: nothing changed since.
FilesAsListed(cmd) == \A i \in 1..Len(cmd.files) : cmd.files[i] \in FileEntries
DirectoriesAsListed(cmd) == \A i \in 1..Len(cmd.directories) : cmd.directories[i] \in DirEntries

\* Between the calls one entry of the listing changes in the file system.
FileSystemChange ==
  /\ pc = "done"
  /\ previous = Pending
  /\ FilesAsListed(command)
  /\ DirectoriesAsListed(command)
  /\ \/ \E i \in 1..Len(command.files) : \E changed \in FileSystemChanges(command.files[i]) :
          command' = [command EXCEPT !.files[i] = changed]
     \/ \E i \in 1..Len(command.directories) :
          \E changed \in FileSystemChanges(command.directories[i]) :
            command' = [command EXCEPT !.directories[i] = changed]
  /\ command' # command
  /\ UNCHANGED <<pc, longest, remaining_width, file_name_target_length, header_row,
                 string_list_of_files, string_list_of_dirs, result, previous, build_vars, listing_vars>>

\* The caller keeps the first result and calls again.
CallAgain ==
  /\ pc = "done"
  /\ previous = Pending
  /\ previous' = result
  /\ pc' = "analyse_longest"
  /\ longest' = None
  /\ remaining_width' = None
  /\ file_name_target_length' = None
  /\ header_row' = <<>>
  /\ string_list_of_files' = <<>>
  /\ string_list_of_dirs' = <<>>
  /\ result' = Pending
  /\ UNCHANGED <<command, build_vars, listing_vars>>

NextTwice == Next \/ FileSystemChange \/ CallAgain

SpecTwice == Init /\ [][NextTwice]_vars

(***************************************************************************)
(* generate_textual_display called for the same file names listed from     *)
(* another directory: DirEntry::path changes, DirEntry::file_name does     *)
(* not.                                                                    *)
(***************************************************************************)
\* A longer directory, and one whose name is not valid Unicode.
OtherDirs == {<<"/", "t", "/", "d", "e", "e", "p", "e", "r">>, <<"/", "FF">>}

read_from(dir, entry) == [entry EXCEPT !.parent = dir]

read_all_from(dir, entries) == [k \in 1..Len(entries) |-> read_from(dir, entries[k])]

\* The same names are listed from another directory for the second call.
ListElsewhere ==
  /\ pc = "done"
  /\ previous = Pending
  /\ FilesAsListed(command)
  /\ DirectoriesAsListed(command)
  /\ \E dir \in OtherDirs :
       command' = [command EXCEPT !.files = read_all_from(dir, command.files),
                                  !.directories = read_all_from(dir, command.directories)]
  /\ command' # command
  /\ UNCHANGED <<pc, longest, remaining_width, file_name_target_length, header_row,
                 string_list_of_files, string_list_of_dirs, result, previous, build_vars, listing_vars>>

NextElsewhere == Next \/ ListElsewhere \/ CallAgain

SpecElsewhere == Init /\ [][NextElsewhere]_vars

(***************************************************************************)
(* arg_processing.rs: Config::build.  An argument is a String, here the    *)
(* sequence of its characters, all of one byte.                            *)
(***************************************************************************)
F_FLAG == "F"
L_FLAG == "l"

ProgramName == <<".", "/", "m", "i", "n", "i", "-", "l", "s">>
DefaultTarget == <<".", "/">>
HomeOfUser == <<"/", "h", "o", "m", "e", "/", "u">>

\* The arguments a user may type after the program name.
ArgTexts ==
  {<<"-", "F">>, <<"-", "l">>, <<"-", "l", "F">>, <<"-", "F", "l", "o", "g", ".", "t", "x", "t">>,
   <<"-", "F", "o", "u", "t", ".", "t", "x", "t">>, <<"l", "o", "g", ".", "t", "x", "t">>, <<"~", "/", "d", "e", "v">>,
   <<"-", "x">>, <<"~", "/", "o", "u", "t", ".", "t", "x", "t">>}

\* The directories that exist: Path::is_dir is true of these only.
Directories == {HomeOfUser \o <<"/", "d", "e", "v">>}

is_dir(file_path) == file_path \in Directories

starts_with(string, char) == Len(string) > 0 /\ string[1] = char

Flag(switch, flag_option_text) ==
  [kind |-> "Flag", switch |-> switch, flag_option_text |-> flag_option_text]
TargetDirArgument(target) == [kind |-> "TargetDir", target |-> target]
OptionArgument(text) == [kind |-> "Option", text |-> text]

requires_option(switch) == switch = "F"

contains(vec, item) == \E k \in 1..Len(vec) : vec[k] = item

extract_single_no_concat_switch(string) ==
  LET flag_char == Tail(string)
  IN IF flag_char = <<F_FLAG>> THEN Ok(Flag("F", None))
     ELSE IF flag_char = <<L_FLAG>> THEN Ok(Flag("L", None))
     ELSE Err([kind |-> "UnexpectedArgument", argument |-> flag_char])

\* process_single_flag, with the discovered_options it leaves behind.  With
\* one argument, `arg_length - 2` is below zero: a debug build panics on the
\* subtraction, a release build wraps it to a usize near 2^64, which no
\* index exceeds.
process_single_flag(string, arg_length, index, discovered_options, build) ==
  LET argument == extract_single_no_concat_switch(string)
  IN IF argument.kind = "Err"
       THEN [result |-> argument, discovered_options |-> discovered_options]
     ELSE IF ~requires_option(argument.val.switch)
       THEN [result |-> Ok(<<argument.val>>), discovered_options |-> discovered_options]
     ELSE IF arg_length - 2 < 0 /\ build = "debug"
       THEN [result |-> Panic("attempt to subtract with overflow"),
             discovered_options |-> discovered_options]
     ELSE IF arg_length - 2 < 0 \/ index <= arg_length - 2
       THEN [result |-> Ok(<<argument.val>>),
             discovered_options |-> Append(discovered_options, index + 1)]
     ELSE [result |-> Ok(<<argument.val>>), discovered_options |-> discovered_options]

\* str::split("") yields each character (and an empty string at either
\* end, which is no flag); the option text is cut from the whole string,
\* its '-' included, after as many bytes as there are flag characters.
split_flag_block(string) ==
  LET allowed_flags == {F_FLAG, L_FLAG}
      flag_chars == Tail(string)
      valid_flag_chars == SelectSeq(flag_chars, LAMBDA flag_char : flag_char \in allowed_flags)
      valid_flag_block_length == Len(valid_flag_chars)
      flag_option_text ==
        IF valid_flag_block_length = Len(string) - 1 THEN None
        ELSE Some(SubSeq(string, valid_flag_block_length + 1, Len(string)))
  IN <<valid_flag_chars, flag_option_text>>

\* extract_flags_from_block, with the discovered_options it leaves behind.
extract_flags_from_block(string, discovered_options, i, args_length) ==
  LET split == split_flag_block(string)
      valid_flag_chars == split[1]
      flag_option_text == split[2]
      pushes == IF ~flag_option_text.some /\ (i + 1) < args_length
                  THEN SelectSeq(valid_flag_chars, LAMBDA flag : flag = F_FLAG)
                  ELSE <<>>
  IN [result |-> Ok([k \in 1..Len(valid_flag_chars) |->
                       IF valid_flag_chars[k] = L_FLAG THEN Flag("L", None)
                       ELSE Flag("F", flag_option_text)]),
      discovered_options |-> discovered_options \o [k \in 1..Len(pushes) |-> i + 1]]

\* The closure of parse_flags for the argument at index i.
separate_argument(filtered_args, i, discovered_options, args_length, build) ==
  LET string == filtered_args[i + 1]
  IN IF starts_with(string, "-") /\ Len(string) < 3
       THEN process_single_flag(string, Len(filtered_args), i, discovered_options, build)
     ELSE IF starts_with(string, "-") /\ Len(string) >= 3
       THEN extract_flags_from_block(string, discovered_options, i, args_length)
     ELSE IF contains(discovered_options, i)
       THEN [result |-> Ok(<<OptionArgument(string)>>), discovered_options |-> discovered_options]
     ELSE [result |-> Ok(<<TargetDirArgument(string)>>), discovered_options |-> discovered_options]

\* flat_map over the Results of the closure, then flatten: a Result is an
\* iterator of its Ok value, so an Err yields nothing and is dropped.
RECURSIVE separate_from(_, _, _, _, _, _)
separate_from(filtered_args, i, discovered_options, separated_args, args_length, build) ==
  IF i = Len(filtered_args) THEN Ok(separated_args)
  ELSE LET step == separate_argument(filtered_args, i, discovered_options, args_length, build)
       IN IF step.result.kind = "Panic" THEN step.result
          ELSE separate_from(filtered_args, i + 1, step.discovered_options,
                             separated_args \o (IF step.result.kind = "Ok"
                                                  THEN step.result.val ELSE <<>>),
                             args_length, build)

parse_flags(arguments, build) ==
  LET filtered_args == Tail(arguments)
  IN separate_from(filtered_args, 0, <<>>, <<>>, Len(arguments), build)

get_file_path_as_str(flag_option_text, i, separated) ==
  IF flag_option_text.some THEN Ok(flag_option_text.val)
  ELSE IF i + 2 <= Len(separated) /\ separated[i + 2].kind = "Option"
    THEN Ok(separated[i + 2].text)
  ELSE Err([kind |-> "MissingFileOption"])

\* str::replace('~', home_dir)
RECURSIVE replace_tilde(_, _)
replace_tilde(file_path, replacement) ==
  IF file_path = <<>> THEN <<>>
  ELSE (IF Head(file_path) = "~" THEN replacement ELSE <<Head(file_path)>>)
         \o replace_tilde(Tail(file_path), replacement)

convert_from_short_unix_home(file_path, home) ==
  IF starts_with(file_path, "~")
    THEN IF ~home.some
           THEN Err([kind |-> "UnexpectedArgument", argument |-> file_path])
           ELSE Ok(replace_tilde(file_path, home.val))
    ELSE Ok(file_path)

get_valid_file_path(flag_option_text, i, separated, home) ==
  LET file_path == get_file_path_as_str(flag_option_text, i, separated)
  IN IF file_path.kind = "Err" THEN file_path
     ELSE convert_from_short_unix_home(file_path.val, home)

IsFileFlag(argument) == argument.kind = "Flag" /\ argument.switch = "F"

parse_file_output_args(separated, home) ==
  IF \E k \in 1..Len(separated) : IsFileFlag(separated[k])
    THEN LET k == CHOOSE k \in 1..Len(separated) :
                    /\ IsFileFlag(separated[k])
                    /\ \A j \in 1..(k - 1) : ~IsFileFlag(separated[j])
             file_path == get_valid_file_path(separated[k].flag_option_text, k - 1, separated, home)
         IN IF file_path.kind = "Err" THEN file_path
            ELSE IF is_dir(file_path.val) THEN Err([kind |-> "MissingFileOption"])
            ELSE Ok(<<TRUE, file_path.val>>)
    ELSE Ok(<<FALSE, <<>>>>)

parse_extended_attribute_flag(separated) ==
  \E k \in 1..Len(separated) : separated[k].kind = "Flag" /\ separated[k].switch = "L"

\* As find_target, taking the file option of -F for a target as well.
find_target_among_options(separated) ==
  LET found == SelectSeq(separated, LAMBDA flag : flag.kind \in {"TargetDir", "Option"})
  IN IF found # <<>>
       THEN (IF found[1].kind = "TargetDir" THEN found[1].target ELSE found[1].text)
       ELSE DefaultTarget

\* The target of Config::build: the first TargetDir argument, or "./".
find_target(separated) ==
  LET found == SelectSeq(separated, LAMBDA flag : flag.kind = "TargetDir")
  IN IF found # <<>> THEN found[1].target ELSE DefaultTarget

ArgumentLists ==
  UNION {[1..n -> ArgTexts] : n \in 0..MaxArgs}

NotFormatting ==
  /\ command = [extended_attr |-> FALSE, width |-> MIN_CONSOLE_WIDTH, files |-> <<>>,
                directories |-> <<>>]
  /\ pc = "idle"
  /\ longest = None
  /\ remaining_width = None
  /\ file_name_target_length = None
  /\ header_row = <<>>
  /\ string_list_of_files = <<>>
  /\ string_list_of_dirs = <<>>
  /\ result = Pending
  /\ previous = Pending

\* main: Config::build(env::args().collect()), in a debug or a release
\* build of the program, for a user with or without a home directory.
InitBuild ==
  /\ args \in {<<ProgramName>> \o typed : typed \in ArgumentLists}
  /\ profile \in {"debug", "release"}
  /\ home_dir \in {None, Some(HomeOfUser)}
  /\ build_pc = "parse_flags"
  /\ flags = <<>>
  /\ file_output = Pending
  /\ config = Pending
  /\ NotFormatting
  /\ NotListing

ParseFlags ==
  /\ build_pc = "parse_flags"
  /\ LET parsed == parse_flags(args, profile)
     IN IF parsed.kind = "Ok"
          THEN flags' = parsed.val /\ build_pc' = "parse_file_output_args" /\ config' = config
          ELSE flags' = flags /\ build_pc' = "done" /\ config' = parsed
  /\ UNCHANGED <<args, profile, home_dir, file_output, formatting_vars, previous, listing_vars>>

ParseFileOutputArgs ==
  /\ build_pc = "parse_file_output_args"
  /\ file_output' = parse_file_output_args(flags, home_dir)
  /\ IF file_output'.kind = "Ok"
       THEN build_pc' = "target" /\ config' = config
       ELSE build_pc' = "done" /\ config' = file_output'
  /\ UNCHANGED <<args, profile, home_dir, flags, formatting_vars, previous, listing_vars>>

ReturnConfig ==
  /\ build_pc = "target"
  /\ config' = Ok([target |-> find_target(flags),
                   to_file |-> file_output.val[1],
                   target_file |-> file_output.val[2],
                   extended_attributes |-> parse_extended_attribute_flag(flags)])
  /\ build_pc' = "done"
  /\ UNCHANGED <<args, profile, home_dir, flags, file_output, formatting_vars, previous, listing_vars>>

NextBuild == ParseFlags \/ ParseFileOutputArgs \/ ReturnConfig

SpecBuild == InitBuild /\ [][NextBuild]_vars

(***************************************************************************)
(* lib.rs: split_into_files_and_dirs.  fs::read_dir yields one             *)
(* io::Result<DirEntry> per child of the directory; DirEntry::file_type    *)
(* answers with the type of the child, or fails.                           *)
(***************************************************************************)
ReadEntryOf(name, file_type) == Ok([file_name |-> name, file_type |-> file_type])

\* What read_dir may yield for a child: an error, two regular files, two
\* directories, a symbolic link, and a child whose type cannot be read.
ReadResults ==
  {Err("PermissionDenied"),
   ReadEntryOf("a", Ok("file")), ReadEntryOf("b", Ok("file")),
   ReadEntryOf("c", Ok("dir")), ReadEntryOf("d", Ok("dir")),
   ReadEntryOf("s", Ok("symlink")),
   ReadEntryOf("u", Err("NotFound"))}

\* FileType::is_dir
is_dir_type(file_type) == file_type = "dir"

\* filter_map(|dir_entry| dir_entry.ok()) drops the errors; partition puts
\* the entries for which file_type().is_ok_and(is_dir) holds first and all
\* the others second.
split_into_files_and_dirs(collection) ==
  LET read == SelectSeq(collection, LAMBDA dir_entry : dir_entry.kind = "Ok")
      entries == [k \in 1..Len(read) |-> read[k].val]
      is_directory(entry) == entry.file_type.kind = "Ok" /\ is_dir_type(entry.file_type.val)
  IN <<SelectSeq(entries, is_directory),
       SelectSeq(entries, LAMBDA entry : ~is_directory(entry))>>

ReadDirs == UNION {[1..n -> ReadResults] : n \in 0..MaxRead}

\* convert_read_dir_to_filename_collection is handed what read_dir yields.
InitList ==
  /\ file_collection \in ReadDirs
  /\ partitioned = Pending
  /\ NotFormatting
  /\ NotBuilding

SplitIntoFilesAndDirs ==
  /\ partitioned = Pending
  /\ LET split == split_into_files_and_dirs(file_collection)
     IN partitioned' = [kind |-> "Split", directories |-> split[1], files |-> split[2]]
  /\ UNCHANGED <<file_collection, formatting_vars, previous, build_vars>>

NextList == SplitIntoFilesAndDirs

SpecList == InitList /\ [][NextList]_vars

(***************************************************************************)
(* What a caller observes of a finished call.                              *)
(***************************************************************************)
Done == pc = "done"
Returned == Done /\ result.kind = "Ok"
ExtendedMode == command.extended_attr /\ command.width > MIN_CONSOLE_WIDTH
NoEntries == command.files = <<>> /\ command.directories = <<>>

StartsWith(s, prefix) == Len(s) >= Len(prefix) /\ SubSeq(s, 1, Len(prefix)) = prefix
Contains(s, part) == \E k \in 0..(Len(s) - Len(part)) : SubSeq(s, k + 1, k + Len(part)) = part

ReportLines == lines(result.val)
ReportRows == LET all == ReportLines IN SubSeq(all, 3, Len(all))
IsFileRow(row) == StartsWith(row, FLOPPY)
IsDirRow(row) == StartsWith(row, FOLDER)
ReportFileRows == SelectSeq(ReportRows, IsFileRow)
ReportDirRows == SelectSeq(ReportRows, IsDirRow)

\* An extended row is icon, space, name cell, then 61 bytes: a space and a
\* 23-byte date, a space and the 12-byte permissions, a space and a date.
AfterNameCell == RESERVED_LENGTH - Len(FLOPPY) - 1
NameCell(row) == SubSeq(row, Len(FLOPPY) + 2, Len(row) - AfterNameCell)
RowAfterNameCell(row) == SubSeq(row, Len(row) - AfterNameCell + 1, Len(row))

HasValidName(entry) == ValidUtf8From(entry.file_name, 1)
ValidNamed(entries) == SelectSeq(entries, HasValidName)

(***************************************************************************)
(* Claims about generate_textual_display.                                  *)
(***************************************************************************)

\* C1: a returned report of a non-empty entry set has exactly
\* 2 + |files| + |directories| lines.
C1_LineCount ==
  (Returned /\ ~NoEntries) =>
    Len(ReportLines) = 2 + Len(command.files) + Len(command.directories)

\* C2: extended mode with width <= 80 never returns a report, whatever the
\* files and directories are.
C2_NarrowExtendedNeverReturns ==
  (command.extended_attr /\ command.width <= MIN_CONSOLE_WIDTH) => result.kind # "Ok"

C2_Witness ==
  /\ Done
  /\ command.extended_attr
  /\ command.width = MIN_CONSOLE_WIDTH
  /\ command.files # <<>>
  /\ command.directories # <<>>
  /\ result.kind = "Panic"

\* C3: in an extended-mode report the name cell of every file row is as many
\* grapheme clusters long as the allocated name-column width, truncated or
\* padded.
C3_NameCellWidth ==
  (Returned /\ ExtendedMode) =>
    LET rows == ReportFileRows
    IN \A i \in 1..Len(rows) :
         Len(graphemes(NameCell(rows[i]))) = file_name_target_length.val

FirstGraphemes(text, n) == join(take(graphemes(text), n), <<>>)

\* C4 as claimed: the name cell of a path of more than N grapheme clusters is
\* its first N grapheme clusters, a strict prefix made of whole clusters, and
\* the row does not contain the full path.
C4_TruncatedRowOmitsPath ==
  (Returned /\ ExtendedMode) =>
    LET rows == ReportFileRows
    IN
    /\ Len(rows) = Len(command.files)
    /\ \A i \in 1..Len(rows) :
         LET full == path(command.files[i])
             n == file_name_target_length.val
             cell == NameCell(rows[i])
         IN Len(graphemes(full)) > n =>
              /\ cell = FirstGraphemes(full, n)
              /\ graphemes(cell) = take(graphemes(full), n)
              /\ cell # full /\ StartsWith(full, cell)
              /\ ~Contains(rows[i], full)

\* C4 as amended: the same, but the row contains the full path in the one
\* case where the cut-off rest of the path is also how the text after the
\* name cell (a space, then the creation date) begins.
C4_TruncatedCellIsPrefix ==
  (Returned /\ ExtendedMode) =>
    LET rows == ReportFileRows
    IN
    /\ Len(rows) = Len(command.files)
    /\ \A i \in 1..Len(rows) :
         LET full == path(command.files[i])
             n == file_name_target_length.val
             cell == NameCell(rows[i])
             cut_off == SubSeq(full, Len(cell) + 1, Len(full))
         IN Len(graphemes(full)) > n =>
              /\ cell = FirstGraphemes(full, n)
              /\ graphemes(cell) = take(graphemes(full), n)
              /\ cell # full /\ StartsWith(full, cell)
              /\ Contains(rows[i], full)
                   <=> StartsWith(RowAfterNameCell(rows[i]), cut_off)

C4_Witness ==
  /\ Returned /\ ExtendedMode
  /\ \E i \in 1..Len(command.files) :
       /\ command.files[i] = WideFile
       /\ Len(graphemes(path(WideFile))) > file_name_target_length.val
       /\ ~Contains(ReportFileRows[i], path(WideFile))

\* C5 as claimed: the header's name-column width is the same number as the
\* file rows' name-column width.
C5_HeaderWidthEqualsRowWidth ==
  (Returned /\ ExtendedMode) => remaining_width.val = file_name_target_length.val

\* C5 as amended: the header's name-column width is the rows' plus 4 (icon and
\* separators) when the extent is at most width - 66, plus 5 when it is
\* width - 65, and plus 6 when it is width - 64 or more.
C5_HeaderWidthExceedsRowWidth ==
  (Returned /\ ExtendedMode) =>
    LET difference == remaining_width.val - file_name_target_length.val
        room == command.width - RESERVED_LENGTH
    IN /\ longest.val <= room => difference = 4
       /\ longest.val = room + 1 => difference = 5
       /\ longest.val >= room + 2 => difference = 6

C5_Witness ==
  /\ Returned /\ ExtendedMode
  /\ command.files # <<>>
  /\ longest.val >= command.width - RESERVED_LENGTH + 2
  /\ remaining_width.val = file_name_target_length.val + 6

\* The row was rendered from the entry at this position of files followed by
\* directories.
RowShows(row, position) ==
  IF position <= Len(command.files)
    THEN /\ IsFileRow(row)
         /\ IF ExtendedMode
              THEN \/ StartsWith(path(command.files[position]), NameCell(row))
                   \/ StartsWith(NameCell(row), path(command.files[position]))
              ELSE SubSeq(row, Len(FLOPPY) + 2, Len(row)) = file_name(command.files[position])
    ELSE /\ IsDirRow(row)
         /\ SubSeq(row, Len(FOLDER) + 2, Len(row))
              = file_name(command.directories[position - Len(command.files)])

Unrenderable(entry) == ~HasValidName(entry) \/ ~entry.meta_ok

\* C7: a request with an entry whose name is not valid Unicode or whose
\* metadata cannot be read never yields a report.
C7_AllOrNothing ==
  (Done /\ \E i \in 1..Len(command.files \o command.directories) :
             Unrenderable((command.files \o command.directories)[i]))
    => result.kind # "Ok"

WidthPolicyMet == ~(command.extended_attr /\ command.width <= MIN_CONSOLE_WIDTH)

\* C8: for a request that meets the width policy, the call fails with
\* UnableToCalculatePathLengths exactly when it has no files and no directories.
C8_EmptyRequestIsUnable ==
  (Done /\ WidthPolicyMet) =>
    (result = Err("UnableToCalculatePathLengths") <=> NoEntries)

C8_Witness ==
  /\ Done /\ WidthPolicyMet
  /\ NoEntries
  /\ result = Err("UnableToCalculatePathLengths")

\* The rows that show each validly named entry as icon, space and the given
\* text of the entry, nothing more.
PlainRows(entries, icon, text(_)) ==
  [i \in 1..Len(ValidNamed(entries)) |-> icon \o <<" ">> \o text(ValidNamed(entries)[i])]

NameHeading == <<"N", "a", "m", "e">>
PlainHeading == <<"N", "a", "m", "e", ":">>
DateCreatedHeading == <<"D", "a", "t", "e", " ", "C", "r", "e", "a", "t", "e", "d">>
DateModifiedHeading == <<"D", "a", "t", "e", " ", "M", "o", "d", "i", "f", "i", "e", "d">>
PermissionsHeading == <<"P", "e", "r", "m", "i", "s", "s", "i", "o", "n", "s">>

AllAre(s, char) == \A k \in 1..Len(s) : s[k] = char

\* C11: every returned report starts with a content line beginning with
\* "Name" and a separator line of exactly `width` '=' characters; without
\* extended attributes the content line is exactly "Name:" and holds none of
\* "Date Created", "Date Modified", "Permissions".
C11_HeaderLines ==
  Returned =>
    LET all == ReportLines
    IN /\ Len(all) >= 2
       /\ StartsWith(all[1], NameHeading)
       /\ Len(all[2]) = command.width
       /\ AllAre(all[2], "=")
       /\ ~command.extended_attr =>
            /\ all[1] = PlainHeading
            /\ ~Contains(all[1], DateCreatedHeading)
            /\ ~Contains(all[1], DateModifiedHeading)
            /\ ~Contains(all[1], PermissionsHeading)

\* A plain report and an extended report have both been returned: here the
\* extended one, whose content line is longer than "Name:".
C11_Witness ==
  /\ Returned
  /\ ExtendedMode
  /\ Len(ReportLines[1]) > Len(PlainHeading)
  /\ Len(ReportLines[2]) = command.width

\* A heading followed by spaces up to a column width.
PadTo(text, column_width) == text \o [k \in 1..(column_width - Len(text)) |-> " "]

\* C12: with extended attributes at a width above 80 the header content line
\* is "Name" padded to the header name-column width, "Date Created" padded to
\* 24, "Permissions" padded to 13 and "Date Modified" padded to 24, in that
\* order with nothing between them.
C12_ExtendedHeaderColumns ==
  (Returned /\ ExtendedMode) =>
    ReportLines[1] = PadTo(NameHeading, remaining_width.val)
                       \o PadTo(DateCreatedHeading, DATE_HEADING_WIDTH)
                       \o PadTo(PermissionsHeading, PERMISSIONS_HEADING_WIDTH)
                       \o PadTo(DateModifiedHeading, DATE_HEADING_WIDTH)

\* An extended report whose name heading is sized from the longest path.
C12_Witness ==
  /\ Returned
  /\ ExtendedMode
  /\ remaining_width.val = longest.val + NAME_HEADING_MARGIN
  /\ Contains(ReportLines[1], PermissionsHeading \o <<" ", " ">> \o DateModifiedHeading)

EndsWith(s, suffix) ==
  Len(s) >= Len(suffix) /\ SubSeq(s, Len(s) - Len(suffix) + 1, Len(s)) = suffix

ReadOnlyLiteral == <<"r", "e", "a", "d", " ", "o", "n", "l", "y">>
WritableLiteral == <<"w", "r", "i", "t", "a", "b", "l", "e">>
PermissionsLiteral(entry) == IF entry.readonly THEN ReadOnlyLiteral ELSE WritableLiteral

\* What follows the name cell of the row of an entry: separator, creation
\* date, separator, the permissions literal padded to cell_width, separator,
\* modification date.
RowTailWith(entry, cell_width) ==
  <<" ">> \o format_date(entry.created) \o <<" ">>
    \o PadTo(PermissionsLiteral(entry), cell_width)
    \o <<" ">> \o format_date(entry.modified)

\* The permissions cell without the separator that follows it.
PermissionsCellWidth == PERMISSIONS_HEADING_WIDTH - Len(<<" ">>)

\* C13 as stated: in every extended file row the permissions cell is
\* "read only" for a read-only file and "writable" otherwise, never both,
\* padded with trailing spaces to exactly PERMISSIONS_WIDTH = 13 characters.
C13_PermissionsCellFillsColumn ==
  (Returned /\ ExtendedMode) =>
    LET rows == ReportFileRows
    IN \A i \in 1..Len(rows) :
         /\ EndsWith(rows[i], RowTailWith(command.files[i], PERMISSIONS_HEADING_WIDTH))
         /\ Contains(RowAfterNameCell(rows[i]), ReadOnlyLiteral) = command.files[i].readonly
         /\ Contains(RowAfterNameCell(rows[i]), WritableLiteral) = ~command.files[i].readonly

\* C13 (amended): in every extended file row the permissions cell is
\* "read only" for a read-only file and "writable" otherwise, never both,
\* padded with trailing spaces to 12 characters: PERMISSIONS_WIDTH = 13 is
\* reached only together with the separating space that follows the cell.
C13_PermissionsCellAndSeparatorFillColumn ==
  (Returned /\ ExtendedMode) =>
    LET rows == ReportFileRows
    IN \A i \in 1..Len(rows) :
         /\ EndsWith(rows[i], RowTailWith(command.files[i], PermissionsCellWidth))
         /\ Len(PadTo(PermissionsLiteral(command.files[i]), PermissionsCellWidth) \o <<" ">>)
              = PERMISSIONS_HEADING_WIDTH
         /\ Contains(RowAfterNameCell(rows[i]), ReadOnlyLiteral) = command.files[i].readonly
         /\ Contains(RowAfterNameCell(rows[i]), WritableLiteral) = ~command.files[i].readonly

\* An extended report with a read-only file row and a writable file row.
C13_Witness ==
  /\ Returned
  /\ ExtendedMode
  /\ \E i, j \in 1..Len(ReportFileRows) :
       /\ command.files[i].readonly
       /\ ~command.files[j].readonly
       /\ Contains(ReportFileRows[i], ReadOnlyLiteral)
       /\ Contains(ReportFileRows[j], WritableLiteral)

\* The row of an entry as five cells in order, `gap` between neighbours.
FiveCells(name_cell, entry, gap) ==
  FLOPPY \o gap \o name_cell \o gap \o format_date(entry.created) \o gap
    \o PadTo(PermissionsLiteral(entry), PermissionsCellWidth) \o gap
    \o format_date(entry.modified)

Truncated(entry) == Len(graphemes(path(entry))) >= file_name_target_length.val

\* C14: every extended file row is the five cells icon, name cell, creation
\* date, permissions, modification date in that order with a space between
\* neighbouring cells; a truncated name cell is the cut path itself and is
\* still followed by a space before the creation date.
C14_FiveCellsSpaceSeparated ==
  (Returned /\ ExtendedMode) =>
    LET rows == ReportFileRows
    IN /\ Len(rows) = Len(command.files)
       /\ \A i \in 1..Len(rows) :
            LET name_cell == IF Truncated(command.files[i])
                               THEN FirstGraphemes(path(command.files[i]),
                                                   file_name_target_length.val)
                               ELSE NameCell(rows[i])
            IN /\ rows[i] = FiveCells(name_cell, command.files[i], <<" ">>)
               /\ ~Truncated(command.files[i]) => StartsWith(name_cell, path(command.files[i]))

\* An extended report with a row whose name was cut short of the path and
\* whose cut name ends in a character other than a space.
C14_Witness ==
  /\ Returned
  /\ ExtendedMode
  /\ \E i \in 1..Len(ReportFileRows) :
       LET cut == FirstGraphemes(path(command.files[i]), file_name_target_length.val)
       IN /\ Len(graphemes(path(command.files[i]))) > file_name_target_length.val
          /\ cut[Len(cut)] # " "
          /\ StartsWith(ReportFileRows[i], FLOPPY \o <<" ">> \o cut \o <<" ">>)

(***************************************************************************)
(* Claims about calling generate_textual_display twice.                    *)
(***************************************************************************)
SecondCallDone == pc = "done" /\ previous # Pending

FillsNameColumn(entry) ==
  Len(graphemes(path(entry))) >= command.width - RESERVED_LENGTH

\* The icon is one grapheme cluster of four bytes.
IconBytesBeyondOne == Len(FLOPPY) - Len(graphemes(FLOPPY))

\* C16 as stated: with extended attributes at a width above 80, every file
\* row whose path is at least width - RESERVED_LENGTH characters long is
\* exactly `width` long (in bytes, as str::len measures it).
C16_TruncatedRowIsWidthLong ==
  (Returned /\ ExtendedMode) =>
    LET rows == ReportFileRows
    IN \A i \in 1..Len(rows) :
         FillsNameColumn(command.files[i]) => Len(rows[i]) = command.width

\* C16 (amended): such a row is width - 3 grapheme clusters long; in bytes it
\* is RESERVED_LENGTH plus the bytes of its name cell, which is exactly
\* `width` when the kept part of the path is single-byte text and more than
\* `width` otherwise.
C16_TruncatedRowIsWidthLongInSingleBytes ==
  (Returned /\ ExtendedMode) =>
    LET rows == ReportFileRows
    IN \A i \in 1..Len(rows) :
         FillsNameColumn(command.files[i]) =>
           LET kept == FirstGraphemes(path(command.files[i]),
                                      command.width - RESERVED_LENGTH)
           IN /\ Len(graphemes(rows[i])) = command.width - IconBytesBeyondOne
              /\ Len(rows[i]) = RESERVED_LENGTH + Len(kept)
              /\ (\A k \in 1..Len(kept) : IsAscii(kept[k])) => Len(rows[i]) = command.width
              /\ (\E k \in 1..Len(kept) : ~IsAscii(kept[k])) => Len(rows[i]) > command.width

\* An extended report with a cut row of single-byte text that is `width`
\* bytes long and a cut row with multi-byte text that is longer.
C16_Witness ==
  /\ Returned
  /\ ExtendedMode
  /\ \E i, j \in 1..Len(ReportFileRows) :
       /\ FillsNameColumn(command.files[i])
       /\ FillsNameColumn(command.files[j])
       /\ Len(ReportFileRows[i]) = command.width
       /\ Len(ReportFileRows[j]) > command.width

\* The first place at which `part` occurs in s: the bytes before it.
Before(s, part) ==
  LET at == CHOOSE k \in 0..(Len(s) - Len(part)) :
              /\ SubSeq(s, k + 1, k + Len(part)) = part
              /\ \A j \in 0..(k - 1) : SubSeq(s, j + 1, j + Len(part)) # part
  IN SubSeq(s, 1, at)

\* The header line up to "Date Created".
HeaderNamePart == Before(ReportLines[1], DateCreatedHeading)

\* An extended row up to its creation date: icon, space, name cell, space.
RowNamePart(row) == SubSeq(row, 1, Len(row) - AfterNameCell + 1)

\* C17: in every extended report the part of the header line before
\* "Date Created" is exactly one grapheme cluster longer than the part of
\* each file row before its creation date, for padded and for truncated
\* name cells.
C17_HeaderNamePartOneLonger ==
  (Returned /\ ExtendedMode) =>
    LET rows == ReportFileRows
        heading == Len(graphemes(HeaderNamePart))
    IN \A i \in 1..Len(rows) : heading = Len(graphemes(RowNamePart(rows[i]))) + 1

\* The longest path is too long for the name heading to be sized from it.
NameHeadingCapped ==
  longest.val + NAME_HEADING_MARGIN > command.width - HEADER_RESERVED

\* C18: with extended attributes, when the name heading is capped at
\* width - 60, the header content line is exactly `width` characters long.
C18_CappedHeaderIsWidthLong ==
  (Returned /\ ExtendedMode /\ NameHeadingCapped) =>
    Len(graphemes(ReportLines[1])) = command.width

(***************************************************************************)
(* Claims about Config::build.                                             *)
(***************************************************************************)
BuildDone == build_pc = "done"
ConfigReturned == BuildDone /\ config.kind = "Ok"

\* What the user typed after the program name.
Typed == Tail(args)

IsFlagText(text) == starts_with(text, "-")

\* A flag argument of flag letters only, F among them: it asks for the file
\* option in the argument that follows.
AsksForFileOption(text) ==
  /\ IsFlagText(text)
  /\ \A k \in 2..Len(text) : text[k] \in {F_FLAG, L_FLAG}
  /\ \E k \in 2..Len(text) : text[k] = F_FLAG

\* The typed argument at position k is the file option of the flag before it.
ConsumedAsFileOption(k) ==
  /\ k > 1
  /\ AsksForFileOption(Typed[k - 1])
  /\ ~IsFlagText(Typed[k])

\* The typed arguments that are neither flags nor file options.
FreeArguments ==
  SelectSeq([k \in 1..Len(Typed) |-> k],
            LAMBDA k : ~IsFlagText(Typed[k]) /\ ~ConsumedAsFileOption(k))

\* C19: Config::build sets target to the argument that is neither a flag nor
\* the file option consumed by -F, and to "./" when there is none (no
\* arguments, only flags, or only -F with its file option, separate or
\* concatenated).
C19_TargetIsFreeArgumentOrDefault ==
  ConfigReturned =>
    config.val.target = IF FreeArguments # <<>> THEN Typed[FreeArguments[1]]
                        ELSE DefaultTarget

\* A Config built from -F, its file option and a target directory; the
\* default target is covered by C19_TargetIsFreeArgumentOrDefault as well.
C19_Witness ==
  /\ ConfigReturned
  /\ config.val.to_file
  /\ Len(Typed) = MaxArgs
  /\ ConsumedAsFileOption(2)
  /\ FreeArguments = <<MaxArgs>>
  /\ config.val.target = Typed[MaxArgs]
  /\ config.val.target # DefaultTarget

FileFlagPrefix == <<"-", F_FLAG>>

\* The typed argument at position k gives -F: as "-F" or "-lF" with the file
\* option in the next argument, or as "-F<text>".
GivesFileFlag(k) ==
  \/ Typed[k] \in {FileFlagPrefix, <<"-", L_FLAG, F_FLAG>>}
  \/ StartsWith(Typed[k], FileFlagPrefix)

\* The file option given with the -F at position k, if one is given.
FileOptionAt(k) ==
  IF Len(Typed[k]) > Len(FileFlagPrefix) /\ StartsWith(Typed[k], FileFlagPrefix)
    THEN Some(SubSeq(Typed[k], Len(FileFlagPrefix) + 1, Len(Typed[k])))
  ELSE IF k < Len(Typed) /\ ~IsFlagText(Typed[k + 1]) THEN Some(Typed[k + 1])
  ELSE None

\* C20: when -F is given with a file option, as the following argument
\* ("-F log.txt", "-lF log.txt") or concatenated ("-F<text>"), Config::build
\* returns to_file = true and target_file equal to exactly that option text,
\* for every option text.  Stated here for the first -F typed and, in favour
\* of the claim, only for option texts that are not written with '~'.
C20_TargetFileIsOptionText ==
  BuildDone =>
    \A k \in 1..Len(Typed) :
      (/\ GivesFileFlag(k)
       /\ \A j \in 1..(k - 1) : ~GivesFileFlag(j)
       /\ FileOptionAt(k).some
       /\ ~starts_with(FileOptionAt(k).val, "~")) =>
        /\ config.kind = "Ok"
        /\ config.val.to_file
        /\ config.val.target_file = FileOptionAt(k).val

\* The typed text names a directory that exists, for a user with a home.
NamesDirectory(text) ==
  /\ home_dir.some
  /\ is_dir(replace_tilde(text, home_dir.val))

\* -F is typed at position k without a file option: nothing follows it, or
\* only the target directory does.
FileFlagWithoutOption(k) ==
  /\ Typed[k] \in {FileFlagPrefix, <<"-", L_FLAG, F_FLAG>>}
  /\ \A j \in 1..(k - 1) : ~GivesFileFlag(j)
  /\ \/ k = Len(Typed)
     \/ k + 1 = Len(Typed) /\ NamesDirectory(Typed[k + 1])

MissingFileOption == Err([kind |-> "MissingFileOption"])

\* C21: when -F is passed without a file option (it is the last argument, or
\* the only argument after it is the target directory), Config::build
\* returns the error MissingFileOption and no Config.
C21_MissingFileOption ==
  BuildDone =>
    \A k \in 1..Len(Typed) : FileFlagWithoutOption(k) => config = MissingFileOption

\* The typed text passes the l flag: "-l", or a block of flag letters with
\* an l among them.
PassesLFlag(text) ==
  /\ IsFlagText(text)
  /\ Len(text) > 1
  /\ \A k \in 2..Len(text) : text[k] \in {F_FLAG, L_FLAG}
  /\ \E k \in 2..Len(text) : text[k] = L_FLAG

\* C22: Config::build sets extended_attributes to true if and only if the l
\* flag was passed, alone ("-l") or inside a flag block ("-lF"); arguments
\* without an l flag, the file option text of -F included, never switch it on.
C22_ExtendedAttributesIffLFlag ==
  ConfigReturned =>
    config.val.extended_attributes = (\E k \in 1..Len(Typed) : PassesLFlag(Typed[k]))

(***************************************************************************)
(* Claims about the order of the checks and about the column widths.       *)
(***************************************************************************)
MinimumWidthViolation == Panic("requires minimum console width of 80")

\* C23: the width policy is validated before the extent is computed: an
\* extended request with width <= 80 fails with the minimum-width violation
\* whether or not the entry set is empty, and never with
\* UnableToCalculatePathLengths.
C23_WidthPolicyBeforeExtent ==
  (Done /\ ~WidthPolicyMet) => result = MinimumWidthViolation

Min(a, b) == IF a <= b THEN a ELSE b

HeaderBuilt == pc \in {"files", "directories", "join"} \/ (Done /\ header_row # <<>>)

\* C24: with extended attributes at a width above 80 the "Name" heading is
\* padded to exactly min(extent + 4, width - 60) characters, for every
\* extent and width, and building it never fails on a subtraction.
C24_NameHeadingWidth ==
  (ExtendedMode /\ longest.some /\ pc # "header") =>
    /\ HeaderBuilt
    /\ Len(header_row) = 2
    /\ StartsWith(header_row[1],
                  PadTo(NameHeading, Min(longest.val + NAME_HEADING_MARGIN,
                                         command.width - HEADER_RESERVED))
                    \o DateCreatedHeading)

\* The smallest extent: every path is invalid Unicode and counts as "", and
\* the heading is "Name" with no padding at all.
C24_Witness ==
  /\ ExtendedMode
  /\ HeaderBuilt
  /\ longest = Some(0)
  /\ StartsWith(header_row[1], NameHeading \o DateCreatedHeading)

\* C25: with extended attributes at a width above 80 the name-column width
\* allocated to every file row is min(width - RESERVED, extent), RESERVED =
\* 66 being what a row holds beside its name cell: every row is its name cut
\* or padded for that width, and 66 bytes more.
C25_RowNameWidth ==
  (ExtendedMode /\ pc \in {"directories", "join", "done"} /\ longest.some) =>
    LET allocated == Min(command.width - RESERVED_LENGTH, longest.val)
    IN /\ file_name_target_length = Some(allocated)
       /\ Returned =>
            \A i \in 1..Len(ReportFileRows) :
              /\ NameCell(ReportFileRows[i])
                   = set_file_name_length(allocated, path(command.files[i])).val
              /\ Len(ReportFileRows[i]) - Len(NameCell(ReportFileRows[i])) = RESERVED_LENGTH

\* A report with rows allocated the extent, and one with rows allocated
\* width - RESERVED: here the second, with a file shorter than the column.
C25_Witness ==
  /\ Returned
  /\ ExtendedMode
  /\ longest.val > command.width - RESERVED_LENGTH
  /\ \E i \in 1..Len(ReportFileRows) :
       /\ Len(path(command.files[i])) < command.width - RESERVED_LENGTH
       /\ Len(NameCell(ReportFileRows[i])) = command.width - RESERVED_LENGTH

AllEntries == command.files \o command.directories

\* C26: the extent computed by analyse_longest is the maximum, over files
\* and directories together, of the length in user-perceived characters of
\* the full path of an entry, and is absent exactly when both sequences are
\* empty.  Stated for requests whose paths are all valid Unicode.
C26_ExtentIsLongestPathInCharacters ==
  (pc # "analyse_longest" /\ \A i \in 1..Len(AllEntries) : HasValidName(AllEntries[i])) =>
    /\ longest.some = ~NoEntries
    /\ longest.some =>
         longest.val = Max({Len(graphemes(path(AllEntries[i]))) : i \in 1..Len(AllEntries)})

(***************************************************************************)
(* Claims about split_into_files_and_dirs.                                 *)
(***************************************************************************)
\* The entries read without error whose type is reported as `wanted`, in
\* the order read.
ReadOfType(wanted) ==
  LET typed == SelectSeq(file_collection,
                         LAMBDA read : /\ read.kind = "Ok"
                                       /\ read.val.file_type.kind = "Ok"
                                       /\ read.val.file_type.val = wanted)
  IN [k \in 1..Len(typed) |-> typed[k].val]

\* C27: the classifier puts an entry into `directories` exactly when its
\* type is Directory and into `files` exactly when its type is File, keeps
\* the order supplied in both, raises no error, and leaves out of both every
\* entry that is unreadable or cannot report its type.
C27_ClassifierKeepsTypedEntriesOnly ==
  partitioned # Pending =>
    /\ partitioned.directories = ReadOfType("dir")
    /\ partitioned.files = ReadOfType("file")

(***************************************************************************)
(* Claims about two requests that differ in the paths only.                *)
(***************************************************************************)
\* The entries of the second call were read from another directory.
ListedElsewhere ==
  \/ \E i \in 1..Len(command.files) : command.files[i].parent # TargetDir
  \/ \E i \in 1..Len(command.directories) : command.directories[i].parent # TargetDir

\* C28: without extended attributes the result does not depend on the
\* extent: two requests of the same width and the same entry names give the
\* same result whatever the lengths of the paths.
C28_PlainResultIndependentOfPaths ==
  (SecondCallDone /\ ~ExtendedMode) => result = previous

\* A plain report returned twice alike although the names were listed from
\* another directory and the extent differs from the byte length of the
\* longest path under the first directory.
C28_Witness ==
  /\ SecondCallDone
  /\ ~ExtendedMode
  /\ Returned
  /\ ListedElsewhere
  /\ command.files # <<>>
  /\ longest # analyse_longest([command EXCEPT !.files = read_all_from(TargetDir, command.files),
                                               !.directories = read_all_from(TargetDir, command.directories)])
  /\ result = previous

(***************************************************************************)
(* Claims about extended requests whose every entry can be rendered.       *)
(***************************************************************************)
\* The metadata of every file of the request can be read.
ReadableMetadata ==
  \A i \in 1..Len(command.files) : metadata(command.files[i]).kind = "Ok"

\* The path of every entry of the request is valid Unicode.
ValidPaths ==
  /\ \A i \in 1..Len(command.files) : to_str(path(command.files[i])).some
  /\ \A i \in 1..Len(command.directories) : to_str(path(command.directories[i])).some

\* C29: with extended attributes and a width above 80, a request that has
\* an entry, whose paths are all valid Unicode (multi-byte ones included)
\* and whose metadata can all be read, returns a report: the padding in
\* set_file_name_length is never negative and the call never aborts.
C29_RenderableRequestReturnsReport ==
  (Done /\ ExtendedMode /\ ~NoEntries /\ ValidPaths /\ ReadableMetadata)
    => Returned

\* The typed text is a flag other than -F and -l: a dash and letters with
\* neither F nor l among them.
IsUnknownFlag(text) ==
  /\ IsFlagText(text)
  /\ Len(text) > 1
  /\ \A k \in 2..Len(text) : text[k] \notin {F_FLAG, L_FLAG}

\* C30: a command line with a flag other than -F and -l (for example "-x")
\* makes Config::build return the error UnexpectedArgument naming that
\* argument; an unknown flag is never silently ignored.
C30_UnknownFlagIsUnexpectedArgument ==
  BuildDone =>
    \A k \in 1..Len(Typed) :
      (IsUnknownFlag(Typed[k]) /\ ~ConsumedAsFileOption(k)) =>
        /\ config.kind = "Err"
        /\ config.error.kind = "UnexpectedArgument"
        /\ config.error.argument \in {Typed[k], Tail(Typed[k])}

====
